---- MODULE Spec2Model ----
(***************************************************************************)
(* A model of cassandrastore (store.go): a gorilla/sessions store that     *)
(* keeps session payloads in a Cassandra table and the session identifier  *)
(* in a signed cookie.                                                     *)
(*                                                                         *)
(* A request slot runs the handler sequence New, application changes,      *)
(* Save..., and is then recycled for the next request.  New and Save are   *)
(* one action each; each makes at most one storage operation.  `last`      *)
(* records what the call that has just returned did, and is cleared by     *)
(* every other step.  Every domain is finite and no counter is kept, so    *)
(* the reachable states are explored completely.                           *)
(*                                                                         *)
(* Not modelled: the age limit securecookie puts on a signature, and a     *)
(* failing entropy source in GenerateRandomKey.                            *)
(***************************************************************************)
EXTENDS Integers, Sequences, FiniteSets, TLC

\* ---------------------------------------------------------------- universe
Requests == {"r1", "r2"}
\* The slots that take requests under Spec: one request after the other.
Active == {"r1"}

\* Identifiers GenerateRandomKey + base32 can produce (all non-empty).
IDs == {"id1", "id2"}

SessionName == "session"
OtherName == "other"

Keys == {"user", "cart"}
\* A value of a type that was never registered with gob.
Unregistered == "unregistered"
\* What the application stores: session.Values[k] = v.
AppValues == { <<"user", "alice">>, <<"cart", "book">>, <<"user", Unregistered>> }

DefaultPath == "/"
DefaultMaxAge == 2592000

\* Options the application may give a session after creation.
AppOptions ==
    { [Path |-> "/",    MaxAge |-> -1],
      [Path |-> "/app", MaxAge |-> 0] }

\* Addresses of sessions.Options objects: the store's, and the one New
\* allocates for the session of each request slot.
StoreOpts == <<"opts", "store">>
OptAddr(r) == <<"opts", r>>

VARIABLES
    options,      \* heap of sessions.Options objects: address -> [Path, MaxAge]
    storeOptions, \* CassandraStore.Options: an address
    db,           \* the table: id -> row
    pc,           \* request slot -> "idle" | "ready" | "saved" | "deleted"
    sess,         \* request slot -> the *sessions.Session it holds
    last,         \* the New/Save call that returned in the step into this state
    jar,          \* identifiers for which Save has set an identifier cookie
    lastWritten   \* id -> payload of the INSERT that wrote the row now stored

vars == <<options, storeOptions, db, pc, sess, last, jar, lastWritten>>

\* ------------------------------------------------------------------ errors
\* Go error values.  Two errors are == only when they are the same value;
\* fmt.Errorf builds a new value that is equal to no sentinel.
Nil == [kind |-> "nil", wrapped |-> FALSE]
ErrNotFound == [kind |-> "notfound", wrapped |-> FALSE]
ErrConn == [kind |-> "conn", wrapped |-> FALSE]
ErrQuery == [kind |-> "query", wrapped |-> FALSE]
ErrGob == [kind |-> "gob", wrapped |-> FALSE]
ErrSign == [kind |-> "sign", wrapped |-> FALSE]

Errorf(e) == [kind |-> e.kind, wrapped |-> TRUE]

\* ----------------------------------------------------------------- payload
EmptyValues == [k \in {} |-> "alice"]

SetKey(m, k, v) == [x \in (DOMAIN m) \cup {k} |-> IF x = k THEN v ELSE m[x]]

\* ------------------------------------------------------------- gob (codec)
\* The bytes of a stored payload: a header token followed by one token per
\* map entry; Bad stands for bytes gob cannot decode.
Hdr == <<"hdr", "map">>
Bad == <<"bad", "bad">>

\* The orders in which a Go map's entries can be written.
Orders(m) ==
    LET n == Cardinality(DOMAIN m)
    IN { o \in [1..n -> DOMAIN m] : \A i, j \in 1..n : i # j => o[i] # o[j] }

\* enc.Encode(s.Values) into buf, with the entries in order o.
gobEncode(m, o) ==
    IF \E k \in DOMAIN m : m[k] = Unregistered
    THEN [err |-> ErrGob, bytes |-> <<>>]
    ELSE [err |-> Nil,
          bytes |-> <<Hdr>> \o [i \in 1..Len(o) |-> <<o[i], m[o[i]]>>]]

RECURSIVE decodeEntries(_, _)
\* gob's map decoding: entries are stored into the destination map one by
\* one; an undecodable entry stops the decoding with an error.
decodeEntries(bytes, m) ==
    IF bytes = <<>> THEN [err |-> Nil, Values |-> m]
    ELSE IF Head(bytes) = Bad \/ Head(bytes) = Hdr
         THEN [err |-> ErrGob, Values |-> m]
         ELSE decodeEntries(Tail(bytes),
                            SetKey(m, Head(bytes)[1], Head(bytes)[2]))

\* dec.Decode(&s.Values) on the bytes read from the row.
gobDecode(bytes, m) ==
    IF bytes = <<>> \/ Head(bytes) # Hdr
    THEN [err |-> ErrGob, Values |-> m]
    ELSE decodeEntries(Tail(bytes), m)

\* ------------------------------------------------------ securecookie codec
\* A cookie value: the session name and identifier it was made for, and the
\* state of its authentication tag.
EncodeMulti(name, id, signOk) ==
    IF signOk
    THEN [err |-> Nil, value |-> [name |-> name, id |-> id, mac |-> "valid"]]
    ELSE [err |-> ErrSign, value |-> [name |-> "", id |-> "", mac |-> "none"]]

\* The empty string as a cookie value.
EmptyValue == [name |-> "", id |-> "", mac |-> "none"]

\* DecodeMulti(name, value, &s.ID, codecs...): the destination is written
\* only when the tag verifies for this name.
DecodeMulti(name, value, dst) ==
    IF value.mac = "valid" /\ value.name = name
    THEN [err |-> Nil, ID |-> value.id]
    ELSE [err |-> ErrSign, ID |-> dst]

\* A cookie value with a bit of the signed portion flipped.
Tamper(value) == [value EXCEPT !.mac = "invalid"]

\* ------------------------------------------------------------ http cookies
NoCookie == [set |-> FALSE, value |-> EmptyValue, path |-> "", maxAge |-> 0]

\* sessions.NewCookie(name, value, options) handed to http.SetCookie.
NewCookie(value, o) ==
    [set |-> TRUE, value |-> value, path |-> o.Path, maxAge |-> o.MaxAge]

\* ----------------------------------------------------------------- storage
\* A row of the table.  The TTL of a row is never read back (the SELECT
\* reads values only), so it is kept with the write, not with the row.
NoRow == [present |-> FALSE, values |-> <<>>]

\* An INSERT a call issued: its bound values, and whether it was applied.
NoWrite == [done |-> FALSE, id |-> "", values |-> <<>>, ttl |-> 0]

\* The payload a Save call handed to the INSERT that wrote a row, kept while
\* the row is stored as written.
NotWritten == [has |-> FALSE, payload |-> EmptyValues]

\* A session object; Options holds the address of its sessions.Options.
NoSession == [ID |-> "", Values |-> EmptyValues, Options |-> StoreOpts, IsNew |-> FALSE]

\* What one handler call did: its input cookie, the errors it met, the
\* storage operations it made, the cookie it set and the error it returned;
\* idBefore and phase are the session's identifier and the slot's pc when
\* the call began.
NoOp ==
    [op |-> "none", r |-> "", hadCookie |-> FALSE, value |-> EmptyValue,
     decoded |-> FALSE, errLoad |-> Nil, err |-> Nil,
     lookups |-> 0, writes |-> 0, opened |-> 0, closed |-> 0,
     cookie |-> NoCookie, write |-> NoWrite, idBefore |-> "", phase |-> "idle"]

\* -------------------------------------------------------------------- load
\* load with the decoding done into a buffer of its own: the row is read
\* and decoded, and the session's payload is left as it was.
load_skipDecode(s, connOk, queryOk) ==
    IF ~connOk
    THEN [err |-> Errorf(ErrConn), Values |-> s.Values,
          opened |-> 0, closed |-> 0, lookups |-> 0]
    ELSE LET scanErr == IF ~queryOk THEN ErrQuery
                        ELSE IF ~db[s.ID].present THEN ErrNotFound
                        ELSE Nil
         IN IF scanErr # Nil
            THEN [err |-> Errorf(scanErr), Values |-> s.Values,
                  opened |-> 1, closed |-> 1, lookups |-> 1]
            ELSE [err |-> gobDecode(db[s.ID].values, s.Values).err,
                  Values |-> s.Values,
                  opened |-> 1, closed |-> 1, lookups |-> 1]

\* CassandraStore.load: one connection, one SELECT, then the gob decoding
\* into s.Values.  connOk and queryOk are the backend's answers.
load(s, connOk, queryOk) ==
    IF ~connOk
    THEN [err |-> Errorf(ErrConn), Values |-> s.Values,
          opened |-> 0, closed |-> 0, lookups |-> 0]
    ELSE LET scanErr == IF ~queryOk THEN ErrQuery
                        ELSE IF ~db[s.ID].present THEN ErrNotFound
                        ELSE Nil
         IN IF scanErr # Nil
            THEN [err |-> Errorf(scanErr), Values |-> s.Values,
                  opened |-> 1, closed |-> 1, lookups |-> 1]
            ELSE LET d == gobDecode(db[s.ID].values, s.Values)
                 IN [err |-> d.err, Values |-> d.Values,
                     opened |-> 1, closed |-> 1, lookups |-> 1]

\* The test with its sense turned: IsNew is cleared when load succeeded.
clearsIsNew_onSuccess(errLoad) == errLoad = Nil

\* The test New applies to load's result before it clears IsNew.
clearsIsNew(errLoad) == errLoad # Nil /\ errLoad # ErrNotFound

\* New going on to load whenever the request has the cookie.
shouldLoad_ignoreDecodeError(present, decErr) == present

\* Whether New goes on to load: the request has the cookie and it decodes.
shouldLoad(present, decErr) == present /\ decErr = Nil

\* The session given the store's own options object instead of a copy.
sessionOptions_shared(r) == StoreOpts

\* The address New gives the options of the session of slot r: a copy of
\* the store's options in an object of its own.
sessionOptions(r) == OptAddr(r)

\* CassandraStore.New for a request that carries (present) or does not
\* carry a cookie named SessionName with the given value.
NewCall(r, present, value, connOk, queryOk) ==
    LET s0 == [ID |-> "", Values |-> EmptyValues,
               Options |-> sessionOptions(r), IsNew |-> TRUE]
        dec == IF present THEN DecodeMulti(SessionName, value, s0.ID)
               ELSE [err |-> ErrSign, ID |-> s0.ID]
        s1 == [s0 EXCEPT !.ID = dec.ID]
        op0 == [NoOp EXCEPT !.op = "New", !.r = r, !.hadCookie = present,
                            !.value = value]
    IN IF shouldLoad(present, dec.err)
       THEN LET l == load(s1, connOk, queryOk)
            IN [s |-> [s1 EXCEPT !.Values = l.Values,
                                 !.IsNew = IF clearsIsNew(l.err) THEN FALSE ELSE TRUE],
                op |-> [op0 EXCEPT !.decoded = (dec.err = Nil), !.errLoad = l.err,
                                   !.lookups = l.lookups, !.opened = l.opened,
                                   !.closed = l.closed]]
       ELSE [s |-> s1, op |-> [op0 EXCEPT !.decoded = present /\ dec.err = Nil]]

\* Cookie values a client can present: the identifier cookies Save has set,
\* tampered copies of them, a cookie signed for another session name, and
\* the empty value.
Presentable ==
    { EncodeMulti(SessionName, id, TRUE).value : id \in jar }
    \cup { Tamper(EncodeMulti(SessionName, id, TRUE).value) : id \in jar }
    \cup { EncodeMulti(OtherName, id, TRUE).value : id \in jar }
    \cup { EmptyValue }

New(r, present, value, connOk, queryOk) ==
    /\ pc[r] = "idle"
    /\ LET res == NewCall(r, present, value, connOk, queryOk)
       IN /\ sess' = [sess EXCEPT ![r] = res.s]
          /\ last' = res.op
          /\ options' = [options EXCEPT ![res.s.Options] = options[storeOptions]]
    /\ pc' = [pc EXCEPT ![r] = "ready"]
    /\ UNCHANGED <<storeOptions, db, jar, lastWritten>>

\* ------------------------------------------------------------------- save
\* The INSERT given the store's max-age.
writeTTL_store(s) == options[storeOptions].MaxAge

\* The TTL of the INSERT.
writeTTL(s) == options[s.Options].MaxAge

\* The primary key of the INSERT.
writeKey(s) == s.ID

\* save with the connection closed at the end of the function instead of
\* by defer: the early return on an encoding error leaves it open.
save_closeAtEnd(s, connOk, execOk, o) ==
    IF ~connOk
    THEN [err |-> Errorf(ErrConn), write |-> NoWrite,
          opened |-> 0, closed |-> 0, writes |-> 0]
    ELSE LET e == gobEncode(s.Values, o)
         IN IF e.err # Nil
            THEN [err |-> Errorf(e.err), write |-> NoWrite,
                  opened |-> 1, closed |-> 0, writes |-> 0]
            ELSE [err |-> IF execOk THEN Nil ELSE ErrQuery,
                  write |-> [done |-> execOk, id |-> writeKey(s),
                             values |-> e.bytes, ttl |-> writeTTL(s)],
                  opened |-> 1, closed |-> 1, writes |-> 1]

\* save with a second INSERT after a failed one.
save_retry(s, connOk, execOk, o) ==
    IF ~connOk
    THEN [err |-> Errorf(ErrConn), write |-> NoWrite,
          opened |-> 0, closed |-> 0, writes |-> 0]
    ELSE LET e == gobEncode(s.Values, o)
         IN IF e.err # Nil
            THEN [err |-> Errorf(e.err), write |-> NoWrite,
                  opened |-> 1, closed |-> 1, writes |-> 0]
            ELSE [err |-> IF execOk THEN Nil ELSE ErrQuery,
                  write |-> [done |-> execOk, id |-> writeKey(s),
                             values |-> e.bytes, ttl |-> writeTTL(s)],
                  opened |-> 1, closed |-> 1,
                  writes |-> IF execOk THEN 1 ELSE 2]

\* save that adds the session's entries to the entries the row holds.
save_merge(s, connOk, execOk, o) ==
    IF ~connOk
    THEN [err |-> Errorf(ErrConn), write |-> NoWrite,
          opened |-> 0, closed |-> 0, writes |-> 0]
    ELSE LET e == gobEncode(s.Values, o)
         IN IF e.err # Nil
            THEN [err |-> Errorf(e.err), write |-> NoWrite,
                  opened |-> 1, closed |-> 1, writes |-> 0]
            ELSE [err |-> IF execOk THEN Nil ELSE ErrQuery,
                  write |-> [done |-> execOk, id |-> writeKey(s),
                             values |-> IF db[s.ID].present
                                        THEN db[s.ID].values \o Tail(e.bytes)
                                        ELSE e.bytes,
                             ttl |-> writeTTL(s)],
                  opened |-> 1, closed |-> 1, writes |-> 1]

\* save that takes the INSERT for applied whatever Exec returned.
save_ignoreExecError(s, connOk, execOk, o) ==
    IF ~connOk
    THEN [err |-> Errorf(ErrConn), write |-> NoWrite,
          opened |-> 0, closed |-> 0, writes |-> 0]
    ELSE LET e == gobEncode(s.Values, o)
         IN IF e.err # Nil
            THEN [err |-> Errorf(e.err), write |-> NoWrite,
                  opened |-> 1, closed |-> 1, writes |-> 0]
            ELSE [err |-> Nil,
                  write |-> [done |-> execOk, id |-> writeKey(s),
                             values |-> e.bytes, ttl |-> writeTTL(s)],
                  opened |-> 1, closed |-> 1, writes |-> 1]

\* CassandraStore.save: one connection, the gob encoding, one INSERT.
save(s, connOk, execOk, o) ==
    IF ~connOk
    THEN [err |-> Errorf(ErrConn), write |-> NoWrite,
          opened |-> 0, closed |-> 0, writes |-> 0]
    ELSE LET e == gobEncode(s.Values, o)
         IN IF e.err # Nil
            THEN [err |-> Errorf(e.err), write |-> NoWrite,
                  opened |-> 1, closed |-> 1, writes |-> 0]
            ELSE [err |-> IF execOk THEN Nil ELSE ErrQuery,
                  write |-> [done |-> execOk, id |-> writeKey(s),
                             values |-> e.bytes, ttl |-> writeTTL(s)],
                  opened |-> 1, closed |-> 1, writes |-> 1]

\* The branch taken on the store's max-age instead of the session's.
expires_storeMaxAge(s) == options[storeOptions].MaxAge < 0

\* Whether Save takes the branch that only expires the cookie.
expires(s) == options[s.Options].MaxAge < 0

\* The options Save hands to sessions.NewCookie for the identifier cookie.
idCookieOptions(s) == options[storeOptions]

\* The expired cookie built from the store's options.
expiredCookieOptions_store(s) == options[storeOptions]

\* The options Save hands to sessions.NewCookie for the expired cookie.
expiredCookieOptions(s) == options[s.Options]

\* Save without the generation of an identifier.
assignID_never(s, newId) == s.ID

\* Save generating an identifier on every call.
assignID_always(s, newId) == newId

\* The identifier Save continues with: a generated one when s.ID is empty.
assignID(s, newId) == IF s.ID = "" THEN newId ELSE s.ID

\* The cookie set before the signing error is looked at.
signAndSet_beforeCheck(s, signOk) ==
    LET enc == EncodeMulti(SessionName, s.ID, signOk)
    IN [err |-> IF enc.err # Nil THEN Errorf(enc.err) ELSE Nil,
        cookie |-> NewCookie(enc.value, idCookieOptions(s))]

\* What Save does with the response once the write has succeeded: it signs
\* the identifier and, when that worked, sets the identifier cookie.
signAndSet(s, signOk) ==
    LET enc == EncodeMulti(SessionName, s.ID, signOk)
    IN IF enc.err # Nil
       THEN [err |-> Errorf(enc.err), cookie |-> NoCookie]
       ELSE [err |-> Nil, cookie |-> NewCookie(enc.value, idCookieOptions(s))]

\* Save doing nothing once a Save call of the request has set a cookie.
SaveCall_oncePerRequest(r, s, newId, connOk, execOk, signOk, o) ==
    LET base == [NoOp EXCEPT !.op = "Save", !.r = r, !.idBefore = s.ID,
                             !.phase = pc[r]]
    IN IF pc[r] \in {"saved", "deleted"}
       THEN [s |-> s, op |-> base]
       ELSE IF expires(s)
       THEN [s |-> s,
             op |-> [base EXCEPT !.cookie = NewCookie(EmptyValue, expiredCookieOptions(s))]]
       ELSE LET s1 == [s EXCEPT !.ID = assignID(s, newId)]
                w == save(s1, connOk, execOk, o)
                ran == [base EXCEPT !.writes = w.writes, !.opened = w.opened,
                                    !.closed = w.closed, !.write = w.write]
            IN IF w.err # Nil
               THEN [s |-> s1, op |-> [ran EXCEPT !.err = Errorf(w.err)]]
               ELSE LET c == signAndSet(s1, signOk)
                    IN [s |-> s1,
                        op |-> [ran EXCEPT !.err = c.err, !.cookie = c.cookie]]

\* Save assigning the generated identifier to the session only when the
\* write succeeded.
SaveCall_idOnSuccess(r, s, newId, connOk, execOk, signOk, o) ==
    LET base == [NoOp EXCEPT !.op = "Save", !.r = r, !.idBefore = s.ID,
                             !.phase = pc[r]]
    IN IF expires(s)
       THEN [s |-> s,
             op |-> [base EXCEPT !.cookie = NewCookie(EmptyValue, expiredCookieOptions(s))]]
       ELSE LET s1 == [s EXCEPT !.ID = assignID(s, newId)]
                w == save(s1, connOk, execOk, o)
                ran == [base EXCEPT !.writes = w.writes, !.opened = w.opened,
                                    !.closed = w.closed, !.write = w.write]
            IN IF w.err # Nil
               THEN [s |-> s, op |-> [ran EXCEPT !.err = Errorf(w.err)]]
               ELSE LET c == signAndSet(s1, signOk)
                    IN [s |-> s1,
                        op |-> [ran EXCEPT !.err = c.err, !.cookie = c.cookie]]

\* CassandraStore.Save.  newId is what the identifier generator returns,
\* o the map iteration order, the booleans the backend's and the signer's
\* answers.
SaveCall(r, s, newId, connOk, execOk, signOk, o) ==
    LET base == [NoOp EXCEPT !.op = "Save", !.r = r, !.idBefore = s.ID,
                             !.phase = pc[r]]
    IN IF expires(s)
       THEN [s |-> s,
             op |-> [base EXCEPT !.cookie = NewCookie(EmptyValue, expiredCookieOptions(s))]]
       ELSE LET s1 == [s EXCEPT !.ID = assignID(s, newId)]
                w == save(s1, connOk, execOk, o)
                ran == [base EXCEPT !.writes = w.writes, !.opened = w.opened,
                                    !.closed = w.closed, !.write = w.write]
            IN IF w.err # Nil
               THEN [s |-> s1, op |-> [ran EXCEPT !.err = Errorf(w.err)]]
               ELSE LET c == signAndSet(s1, signOk)
                    IN [s |-> s1,
                        op |-> [ran EXCEPT !.err = c.err, !.cookie = c.cookie]]

Save(r, newId, connOk, execOk, signOk, o) ==
    /\ pc[r] # "idle"
    /\ LET res == SaveCall(r, sess[r], newId, connOk, execOk, signOk, o)
           w == res.op.write
           c == res.op.cookie
       IN /\ sess' = [sess EXCEPT ![r] = res.s]
          /\ last' = res.op
          /\ db' = IF w.done
                   THEN [db EXCEPT ![w.id] = [present |-> TRUE, values |-> w.values]]
                   ELSE db
          /\ lastWritten' = IF w.done
                            THEN [lastWritten EXCEPT ![w.id] =
                                     [has |-> TRUE, payload |-> sess[r].Values]]
                            ELSE lastWritten
          /\ jar' = IF c.set /\ c.value.mac = "valid" THEN jar \cup {c.value.id}
                    ELSE jar
          /\ pc' = [pc EXCEPT ![r] = IF ~c.set THEN pc[r]
                                     ELSE IF c.value = EmptyValue THEN "deleted"
                                     ELSE "saved"]
    /\ UNCHANGED <<options, storeOptions>>

\* ------------------------------------------------------------- application
\* The handler stores a value in the session: session.Values[k] = v.
SetValue(r, k, v) ==
    /\ pc[r] # "idle"
    /\ sess[r].Values # SetKey(sess[r].Values, k, v)
    /\ sess' = [sess EXCEPT ![r].Values = SetKey(sess[r].Values, k, v)]
    /\ last' = NoOp
    /\ UNCHANGED <<options, storeOptions, db, pc, jar, lastWritten>>

\* The handler changes the session's options: session.Options.MaxAge = ...
SetOptions(r, o) ==
    /\ pc[r] # "idle"
    /\ options[sess[r].Options] # o
    /\ options' = [options EXCEPT ![sess[r].Options] = o]
    /\ last' = NoOp
    /\ UNCHANGED <<storeOptions, db, pc, sess, jar, lastWritten>>

\* The request ends; its session object and options object are dropped.
EndRequest(r) ==
    /\ pc[r] # "idle"
    /\ pc' = [pc EXCEPT ![r] = "idle"]
    /\ sess' = [sess EXCEPT ![r] = NoSession]
    /\ options' = [options EXCEPT ![OptAddr(r)] = options[StoreOpts]]
    /\ last' = NoOp
    /\ UNCHANGED <<storeOptions, db, jar, lastWritten>>

\* ----------------------------------------------------------------- backend
\* A row goes away: Cassandra purges it when its TTL has lapsed.
Expire(id) ==
    /\ db[id].present
    /\ db' = [db EXCEPT ![id] = NoRow]
    /\ lastWritten' = [lastWritten EXCEPT ![id] = NotWritten]
    /\ last' = NoOp
    /\ UNCHANGED <<options, storeOptions, pc, sess, jar>>

\* The stored bytes of a row stop being decodable from token p on (the
\* schema changed, or the bytes were damaged).
Corrupt(id, p) ==
    /\ db[id].present
    /\ p \in 1..Len(db[id].values)
    /\ db[id].values[p] # Bad
    /\ db' = [db EXCEPT ![id].values = SubSeq(db[id].values, 1, p - 1) \o <<Bad>>]
    /\ lastWritten' = [lastWritten EXCEPT ![id] = NotWritten]
    /\ last' = NoOp
    /\ UNCHANGED <<options, storeOptions, pc, sess, jar>>

\* ------------------------------------------------------------ specification
\* NewCassandraStore: Path "/" and MaxAge 2592000; nothing is stored yet.
Init ==
    /\ options = [a \in {StoreOpts} \cup {OptAddr(r) : r \in Requests} |->
                    [Path |-> DefaultPath, MaxAge |-> DefaultMaxAge]]
    /\ storeOptions = StoreOpts
    /\ db = [id \in IDs \cup {""} |-> NoRow]
    /\ pc = [r \in Requests |-> "idle"]
    /\ sess = [r \in Requests |-> NoSession]
    /\ last = NoOp
    /\ jar = {}
    /\ lastWritten = [id \in IDs \cup {""} |-> NotWritten]

\* Where the backend or the signer fails during one call.
Faults == {"none", "conn", "query", "sign"}

Next ==
    \/ \E r \in Active : New(r, FALSE, EmptyValue, TRUE, TRUE)
    \/ \E r \in Active, value \in Presentable, f \in Faults \ {"sign"} :
          New(r, TRUE, value, f # "conn", f # "query")
    \/ \E r \in Active, newId \in IDs, f \in Faults :
          \E o \in Orders(sess[r].Values) :
             Save(r, newId, f # "conn", f # "query", f # "sign", o)
    \/ \E r \in Active, kv \in AppValues : SetValue(r, kv[1], kv[2])
    \/ \E r \in Active, o \in AppOptions : SetOptions(r, o)
    \/ \E r \in Active : EndRequest(r)
    \/ \E id \in IDs : Expire(id)
    \/ \E id \in IDs, p \in 1..3 : Corrupt(id, p)

Spec == Init /\ [][Next]_vars

\* Two requests at a time, on a backend and a signer that answer: what the
\* application stores and the options it sets in these requests.
ConcValues == { <<"user", "alice">>, <<"cart", "book">> }
ConcOptions == { [Path |-> "/app", MaxAge |-> 0] }

NextConc ==
    \/ \E r \in Requests : New(r, FALSE, EmptyValue, TRUE, TRUE)
    \/ \E r \in Requests, id \in jar :
          New(r, TRUE, EncodeMulti(SessionName, id, TRUE).value, TRUE, TRUE)
    \/ \E r \in Requests, newId \in IDs :
          \E o \in Orders(sess[r].Values) : Save(r, newId, TRUE, TRUE, TRUE, o)
    \/ \E r \in Requests, kv \in ConcValues : SetValue(r, kv[1], kv[2])
    \/ \E r \in Requests, o \in ConcOptions : SetOptions(r, o)
    \/ \E r \in Requests : EndRequest(r)

SpecConc == Init /\ [][NextConc]_vars

\* ------------------------------------------------------------------ claims
\* The slot and the session of the call that has just returned.
lastSess == sess[last.r]
lastOptions == options[lastSess.Options]
IsNewCall == last.op = "New"
IsSaveCall == last.op = "Save"
\* New decoded the cookie and called load.
Loaded == IsNewCall /\ last.hadCookie /\ last.decoded

\* C1: when New presents an identifier cookie while the row a Save call
\* wrote for it is still stored as written and the backend answers, the
\* session New returns has exactly the payload that Save call wrote.
C1_SaveLoadRoundTrip ==
    (/\ Loaded
     /\ lastWritten[lastSess.ID].has
     /\ last.errLoad.kind \notin {"conn", "query"})
    => /\ last.errLoad = Nil
       /\ lastSess.Values = lastWritten[lastSess.ID].payload

\* A load that brought back a payload of two entries.
C1_Witness ==
    /\ Loaded
    /\ lastWritten[lastSess.ID].has
    /\ last.errLoad = Nil
    /\ DOMAIN lastSess.Values = Keys
    /\ lastSess.Values = lastWritten[lastSess.ID].payload

\* C2: when the cookie decodes and the load succeeds, the session New
\* returns has IsNew = FALSE.
C2_LoadedIsNotNew ==
    (Loaded /\ last.errLoad = Nil) => lastSess.IsNew = FALSE

\* C3: with no cookie, or with a cookie that does not decode, New returns
\* a session with IsNew = TRUE, an empty identifier and an empty payload,
\* makes no storage lookup and returns no error.
C3_NoCookieIsNew ==
    (IsNewCall /\ ~(last.hadCookie /\ last.decoded))
    => /\ lastSess.IsNew = TRUE
       /\ lastSess.ID = ""
       /\ lastSess.Values = EmptyValues
       /\ last.lookups = 0
       /\ last.opened = 0
       /\ last.err = Nil

\* New was given a tampered copy of an identifier cookie that Save had set.
C3_Witness ==
    /\ IsNewCall
    /\ last.hadCookie
    /\ ~last.decoded
    /\ last.value.mac = "invalid"
    /\ last.value.id \in jar
    /\ db[last.value.id].present
    /\ lastSess.IsNew

\* C4: when the cookie decodes and the lookup finds no row, the session New
\* returns has IsNew = TRUE, as for a request without a cookie.
C4_NotFoundIsNew ==
    (Loaded /\ last.errLoad.kind = "notfound") => lastSess.IsNew = TRUE

\* C5: when the cookie decodes and load returns an error other than
\* not-found, the session New returns has IsNew = FALSE.
C5_LoadErrorNotNew ==
    (Loaded /\ last.errLoad # Nil /\ last.errLoad.kind # "notfound")
    => lastSess.IsNew = FALSE

\* The load failed in the decoding of the stored payload.
C5_Witness ==
    /\ Loaded
    /\ last.errLoad.kind = "gob"
    /\ lastSess.IsNew = FALSE

\* C6: a Save of a session with a negative max-age sets a cookie with an
\* empty value and a negative max-age and returns no error.
C6_NegativeMaxAgeExpiresCookie ==
    (IsSaveCall /\ lastOptions.MaxAge < 0)
    => /\ last.cookie.set
       /\ last.cookie.value = EmptyValue
       /\ last.cookie.maxAge < 0
       /\ last.err = Nil

\* Such a Save, on a session that has an identifier.
C6_Witness ==
    /\ IsSaveCall
    /\ lastOptions.MaxAge < 0
    /\ lastSess.ID # ""
    /\ last.cookie.set
    /\ last.cookie.value = EmptyValue

\* C7: a successful Save of a session with max-age >= 0 and an empty
\* identifier gives the session a non-empty identifier, writes the row
\* under it, and sets a cookie that decodes back to it.
C7_FreshIdentifier ==
    (IsSaveCall /\ lastOptions.MaxAge >= 0 /\ last.idBefore = "" /\ last.err = Nil)
    => /\ lastSess.ID # ""
       /\ last.write.done
       /\ last.write.id = lastSess.ID
       /\ db[lastSess.ID].present
       /\ last.cookie.set
       /\ DecodeMulti(SessionName, last.cookie.value, "") = [err |-> Nil, ID |-> lastSess.ID]

\* Such a Save.
C7_Witness ==
    /\ IsSaveCall
    /\ lastOptions.MaxAge >= 0
    /\ last.idBefore = ""
    /\ last.err = Nil
    /\ last.cookie.set
    /\ last.cookie.value.id = lastSess.ID

\* C8: a Save that returns an error has set no cookie.
C8_ErrorSetsNoCookie ==
    (IsSaveCall /\ last.err # Nil) => ~last.cookie.set

\* A Save whose write was applied and whose signing failed.
C8_Witness ==
    /\ IsSaveCall
    /\ last.err.kind = "sign"
    /\ last.write.done
    /\ ~last.cookie.set

\* C9: the path and max-age of the cookie a successful Save with
\* max-age >= 0 sets are those of the session's options at save time.
C9_CookieUsesSessionOptions ==
    (IsSaveCall /\ lastOptions.MaxAge >= 0 /\ last.err = Nil)
    => /\ last.cookie.set
       /\ last.cookie.path = lastOptions.Path
       /\ last.cookie.maxAge = lastOptions.MaxAge

\* C10: every INSERT Save issues has the session's max-age at save time as
\* its TTL and the session's identifier as its key.
C10_WriteUsesSessionMaxAge ==
    (IsSaveCall /\ last.writes > 0)
    => /\ last.write.ttl = lastOptions.MaxAge
       /\ last.write.id = lastSess.ID
       /\ last.write.id # ""

\* An INSERT for a session whose max-age is not the store's.
C10_Witness ==
    /\ IsSaveCall
    /\ last.write.done
    /\ lastOptions.MaxAge # options[storeOptions].MaxAge
    /\ last.write.ttl = lastOptions.MaxAge

\* The options a live session of slot r has.
optionsOf(r) == options[sess[r].Options]

\* C11: New gives every session options equal to the store's; no step
\* changes the store's options, and no step changes the options of two
\* live sessions at once.
C11_OptionsCopiedPerSession ==
    [][/\ options'[storeOptions'] = options[storeOptions]
       /\ last'.op = "New" => options'[sess'[last'.r].Options] = options'[storeOptions']
       /\ \A r, q \in Requests :
             (/\ r # q
              /\ pc[r] # "idle" /\ pc'[r] # "idle"
              /\ pc[q] # "idle" /\ pc'[q] # "idle"
              /\ options'[sess'[r].Options] # optionsOf(r))
             => options'[sess'[q].Options] = optionsOf(q)]_vars

\* A session created while another live session has options of its own.
C11_Witness ==
    /\ IsNewCall
    /\ \E q \in Requests \ {last.r} :
          /\ pc[q] # "idle"
          /\ optionsOf(q) # options[storeOptions]
    /\ lastOptions = options[storeOptions]

\* C12: a Save of a session with a negative max-age opens no connection,
\* issues no query, and leaves every row of the table as it was.
C12_NegativeMaxAgeNoStorage ==
    [][(last'.op = "Save" /\ options'[sess'[last'.r].Options].MaxAge < 0)
       => /\ db' = db
          /\ last'.opened = 0
          /\ last'.writes = 0
          /\ last'.lookups = 0]_vars

\* Such a Save on a session whose row is stored, and stays.
C12_Witness ==
    /\ IsSaveCall
    /\ lastOptions.MaxAge < 0
    /\ lastSess.ID # ""
    /\ db[lastSess.ID].present
    /\ last.opened = 0

\* C13: every call closes the connection it opened, opens at most one, and
\* opens its own whenever it issues a query.
C13_ConnectionsReleased ==
    (IsNewCall \/ IsSaveCall)
    => /\ last.closed = last.opened
       /\ last.opened <= 1
       /\ (last.lookups + last.writes > 0) => last.opened = 1

\* A Save that failed in the serialization, after the connection was opened.
C13_Witness ==
    /\ IsSaveCall
    /\ last.err.kind = "gob"
    /\ last.opened = 1
    /\ last.closed = 1

\* C14: New makes at most one lookup and Save at most one INSERT, and a
\* failed INSERT makes Save return an error at once.
C14_NoRetry ==
    /\ IsNewCall => (last.lookups <= 1 /\ last.writes = 0)
    /\ IsSaveCall => (last.writes <= 1 /\ last.lookups = 0)
    /\ (IsSaveCall /\ last.writes > 0 /\ ~last.write.done)
       => (last.err # Nil /\ ~last.cookie.set)

\* A Save whose INSERT failed.
C14_Witness ==
    /\ IsSaveCall
    /\ last.writes = 1
    /\ ~last.write.done
    /\ last.err.kind = "query"

\* The outcomes of a Save call: the row written and the identifier cookie
\* set, or the expired cookie set.
SavedOutcome ==
    last.write.done /\ last.cookie.set /\ last.cookie.value # EmptyValue
DeletedOutcome ==
    last.cookie.set /\ last.cookie.value = EmptyValue
\* A Save call was made after a Save call of the same request set a cookie.
FurtherSave == IsSaveCall /\ last.phase \in {"saved", "deleted"}

\* C15 as stated: a further Save call of a request writes no further row
\* and sets no further cookie.
C15_PersistedOnce ==
    FurtherSave => (~last.write.done /\ ~last.cookie.set)

\* C15 as amended: one Save call reaches at most one of the two outcomes,
\* and a further Save call acts as a first one does: it writes the row and
\* sets the identifier cookie when it succeeds with max-age >= 0, and sets
\* the expired cookie with max-age < 0.
C15_EverySaveActs ==
    /\ IsSaveCall => (DeletedOutcome => last.writes = 0 /\ ~last.write.done)
    /\ (FurtherSave /\ lastOptions.MaxAge >= 0 /\ last.err = Nil) => SavedOutcome
    /\ (FurtherSave /\ lastOptions.MaxAge < 0) => DeletedOutcome

\* A request that reached Saved and then Deleted.
C15_Witness ==
    /\ IsSaveCall
    /\ last.phase = "saved"
    /\ DeletedOutcome

\* C16: when the load in New fails, New returns no error and the session's
\* payload is empty.
C16_FailedLoadEmptyPayload ==
    (Loaded /\ last.errLoad # Nil)
    => (last.err = Nil /\ lastSess.Values = EmptyValues)

\* C17: Save keeps a non-empty identifier and writes under it, and New
\* with a cookie that decodes returns a session with the decoded
\* identifier, whatever load returned.
C17_IdentifierStable ==
    /\ (IsSaveCall /\ last.idBefore # "")
       => /\ lastSess.ID = last.idBefore
          /\ last.writes > 0 => last.write.id = last.idBefore
    /\ Loaded => lastSess.ID = last.value.id

\* A write under the identifier of a cookie whose load had failed.
C17_Witness ==
    /\ IsSaveCall
    /\ last.phase = "ready"
    /\ last.idBefore \in jar
    /\ lastSess.IsNew = FALSE
    /\ last.write.done
    /\ last.write.id = last.idBefore

\* C18: a Save that fails on a session with an empty identifier leaves the
\* generated identifier in the session, and the Save call that follows it
\* uses that identifier.
C18_FailedSaveKeepsIdentifier ==
    [][/\ (last'.op = "Save" /\ last'.idBefore = "" /\ last'.err # Nil)
          => sess'[last'.r].ID # ""
       /\ (/\ IsSaveCall /\ last.idBefore = "" /\ last.err # Nil
           /\ last'.op = "Save" /\ last'.r = last.r)
          => /\ last'.idBefore = lastSess.ID
             /\ sess'[last'.r].ID = lastSess.ID
             /\ last'.writes > 0 => last'.write.id = lastSess.ID]_vars

\* A Save whose INSERT failed, on a session that had no identifier.
C18_Witness ==
    /\ IsSaveCall
    /\ last.idBefore = ""
    /\ last.err.kind = "query"
    /\ lastSess.ID # ""

\* C19: an identifier cookie is set only after the row for its identifier
\* was written in the same call; the signing is tried only after the write
\* succeeded, and when it fails Save returns an error and the row stays.
C19_WriteBeforeCookie ==
    IsSaveCall
    => /\ (last.cookie.set /\ last.cookie.value # EmptyValue)
          => /\ last.write.done
             /\ last.write.id = last.cookie.value.id
             /\ db[last.cookie.value.id].present
       /\ last.err.kind = "sign"
          => /\ last.write.done
             /\ ~last.cookie.set
             /\ db[last.write.id] = [present |-> TRUE, values |-> last.write.values]

\* A Save whose signing failed: the error is returned and the row is stored.
C19_Witness ==
    /\ IsSaveCall
    /\ last.err.kind = "sign"
    /\ db[last.write.id].present
    /\ db[last.write.id].values = last.write.values

\* C20: with two requests at a time, no step changes the sessions of both,
\* and after every write the row holds exactly the payload of the session
\* that wrote it.
C20_IsolatedLastWriterWins ==
    [][/\ \A r, q \in Requests :
             (r # q /\ sess'[r] # sess[r]) => sess'[q] = sess[q]
       /\ (last'.op = "Save" /\ last'.write.done)
          => /\ db'[last'.write.id].present
             /\ gobDecode(db'[last'.write.id].values, EmptyValues)
                   = [err |-> Nil, Values |-> sess'[last'.r].Values]]_vars

\* Two requests loaded the same session, both saved, and the row holds the
\* payload of the second writer, without an entry the first had written.
C20_Witness ==
    /\ IsSaveCall
    /\ last.write.done
    /\ \E q \in Requests \ {last.r} :
          /\ pc[q] = "saved"
          /\ sess[q].ID = lastSess.ID
          /\ \E k \in DOMAIN sess[q].Values : k \notin DOMAIN lastSess.Values
    /\ gobDecode(db[lastSess.ID].values, EmptyValues).Values = lastSess.Values

====
